---- MODULE Spec2Model ----
(***************************************************************************)
(* A model of two parts of python/ray/_private/utils.py:                   *)
(*                                                                         *)
(*  - DeferSigint, the context manager that defers SIGINT until its scope  *)
(*    is left, together with the parts of the signal module it drives      *)
(*    (signal.getsignal, signal.signal, the module attribute signal.signal *)
(*    it monkey-patches, and the delivery of SIGINT to the handler that is *)
(*    installed at that moment);                                           *)
(*  - the fate-sharing helpers (detect_fate_sharing_support_*,             *)
(*    set_kill_on_parent_death_linux, set_kill_child_on_death_win32), as   *)
(*    calls made one after another and, for the probes, statement by       *)
(*    statement in two threads.                                            *)
(*                                                                         *)
(* Python runs signal handlers on the main thread between two bytecodes,   *)
(* so __enter__ and __exit__ are modelled one statement per step and a     *)
(* delivery may fall between any two of them.                              *)
(***************************************************************************)
EXTENDS Naturals, Sequences, FiniteSets

\* ------------------------------------------------------------------ bounds
\* context managers constructed in one run
MaxGuards == 2
\* SIGINT deliveries in one run
MaxDeliveries == 2
\* calls of signal.signal made by client code in one run
MaxRegs == 1

\* ------------------------------------------------------------------ values
Threads == {"main", "worker"}
Signals == {"SIGINT", "SIGTERM"}
Guards  == 1 .. MaxGuards

\* Python objects are pairs <<name, instance>>, so that any two compare.
None                == <<"None", 0>>
SIG_DFL             == <<"SIG_DFL", 0>>
SIG_IGN             == <<"SIG_IGN", 0>>
default_int_handler == <<"default_int_handler", 0>>
user_handler        == <<"user_handler", 0>>
\* the bound method g._set_task_cancelled
Defer(g)            == <<"_set_task_cancelled", g>>
\* the context managers: a DeferSigint instance, and contextlib.nullcontext()
Guard(g)            == <<"DeferSigint", g>>
NullCtx             == <<"nullcontext", 0>>
\* the bound method g._signal_monkey_patch
Patch(g)            == <<"_signal_monkey_patch", g>>
\* the signal module's own signal.signal
RealSignal          == <<"signal.signal", 0>>

\* what client code can pass to signal.signal
Installable == {SIG_DFL, SIG_IGN, default_int_handler, user_handler}

VARIABLES
    handlers,            \* signal -> handler signal.getsignal reports
    signal_signal,       \* the module attribute signal.signal
    task_cancelled,      \* instance -> self.task_cancelled
    orig_sigint_handler, \* instance -> self.orig_sigint_handler
    orig_signal,         \* instance -> self.orig_signal
    status,              \* instance -> how far its with statement has come
    exc_type,            \* instance -> the exc_type its __exit__ was given
    stack,               \* thread -> the context managers of its open with
                         \*   statements, innermost last
    pc,                  \* thread -> the next statement of its innermost scope
    pendingExc,          \* thread -> an exception in flight in a scope's body
    alive,               \* the process has not been killed by SIGINT's default action
    created,             \* context managers constructed so far
    delivered,           \* SIGINT deliveries so far
    regs,                \* client calls of signal.signal so far
    deferred,            \* history: instance -> deliveries its handler recorded
                         \*   in the scope it is in, or was in last
    rejected,            \* history: instance -> registrations its patch rejected
                         \*   in that scope
    entryHandler,        \* history: instance -> SIGINT's handler when its with began
    entrySignal          \* history: instance -> signal.signal when its with began

sigVars == <<handlers, signal_signal, task_cancelled, orig_sigint_handler,
             orig_signal, status, exc_type, stack, pc, pendingExc, alive,
             created, delivered, regs, deferred, rejected, entryHandler,
             entrySignal>>

\* the fate-sharing helpers' state
VARIABLES
    platform,        \* sys.platform: "linux", "win32" or "darwin"
    os_facts,        \* what the host answers to the probes and to a debugger test
    linux_prctl,     \* the module global: "None", "False" or "prctl"
    win32_job,       \* the module global: "None", "False" or "job"
    win32_AssignProcessToJobObject, \* the module global: "None", "False" or "function"
    job_flags,       \* the LimitFlags set on the job object the probe created
    job_members,     \* the processes assigned to that job object
    pdeathsig,       \* the child's parent-death signal: "none" or "SIGKILL"
    parent,          \* "alive", "exited" (the kernel has yet to clean up) or "reaped"
    child,           \* "none", "running" or "dead"
    calls,           \* calls of the helpers so far
    last_call,       \* history: the last helper call, how it ended and how many
                     \*   warnings it gave the module's logger
    prim_calls,      \* history: calls of prctl and AssignProcessToJobObject so far
    bound_at_exit,   \* history: the child was bound when the parent exited
    os_errno,        \* errno / GetLastError() as the last failed OS call left it
    ctypes_errno,    \* ctypes' private copy, what ctypes.get_errno() and
                     \*   ctypes.get_last_error() return
    probes,          \* history: OS probes performed so far
    jobs_created     \* history: job objects created so far

fateVars == <<platform, os_facts, linux_prctl, win32_job,
              win32_AssignProcessToJobObject, job_flags, job_members, pdeathsig,
              parent, child, calls, last_call, prim_calls, bound_at_exit,
              os_errno, ctypes_errno, probes, jobs_created>>

\* threads inside a capability probe
VARIABLES
    probe_pc,        \* thread -> the next statement of the probe it is in
    probe_local,     \* thread -> the probe's locals: the library (kernel32, or
                     \*   libc's prctl) and the job
    probe_ret        \* thread -> what its last probe call returned

probeVars == <<probe_pc, probe_local, probe_ret>>

\* a call of one of the internal_kv_*_with_retry helpers
VARIABLES
    kv_fn,           \* the helper called: "none", "get", "list" or "put"
    kv_num_retries,  \* its argument num_retries
    kv_pc,           \* "idle", "loop" (in the for loop), "after" (past it), "done"
    kv_i,            \* iterations of the for loop begun so far
    kv_result,       \* the local variable result (get, list)
    kv_error,        \* the local variable error (put)
    kv_outcome,      \* how the call ended: what it returned or raised
    kv_replies,      \* history: what the store answered to each call made to it
    kv_sleeps        \* history: time.sleep(2) calls so far

kvVars == <<kv_fn, kv_num_retries, kv_pc, kv_i, kv_result, kv_error, kv_outcome,
            kv_replies, kv_sleeps>>

vars == <<sigVars, fateVars, probeVars, kvVars>>

\* ------------------------------------------------ the signal module's calls

\* threading.current_thread() == threading.main_thread()
is_main_thread(t) == t = "main"

\* signal.signal itself: main thread only, and the handler must be SIG_DFL,
\* SIG_IGN or a callable; it returns the handler it replaced.
signal_builtin(t, signum, h) ==
    IF ~is_main_thread(t)
    THEN [raised |-> "ValueError", by |-> "python", table |-> handlers, returned |-> None]
    ELSE IF h = None
    THEN [raised |-> "TypeError", by |-> "python", table |-> handlers, returned |-> None]
    ELSE [raised |-> "None", by |-> "none",
          table |-> [handlers EXCEPT ![signum] = h], returned |-> handlers[signum]]

RECURSIVE CallSignal(_, _, _, _)

\* DeferSigint._signal_monkey_patch without its check (a mutant)
signal_monkey_patch_NoCheck(g, t, signum, h) ==
    CallSignal(orig_signal[g], t, signum, h)

\* DeferSigint._signal_monkey_patch that tests for the wrong signal (a mutant)
signal_monkey_patch_WrongSignal(g, t, signum, h) ==
    IF is_main_thread(t) /\ signum = "SIGTERM"
    THEN [raised |-> "ValueError", by |-> "guard", table |-> handlers, returned |-> None]
    ELSE CallSignal(orig_signal[g], t, signum, h)

\* DeferSigint._signal_monkey_patch that rejects on every thread (a mutant)
signal_monkey_patch_AnyThread(g, t, signum, h) ==
    IF signum = "SIGINT"
    THEN [raised |-> "ValueError", by |-> "guard", table |-> handlers, returned |-> None]
    ELSE CallSignal(orig_signal[g], t, signum, h)

\* DeferSigint._signal_monkey_patch that rejects every signal (a mutant)
signal_monkey_patch_EverySignal(g, t, signum, h) ==
    IF is_main_thread(t)
    THEN [raised |-> "ValueError", by |-> "guard", table |-> handlers, returned |-> None]
    ELSE CallSignal(orig_signal[g], t, signum, h)

\* DeferSigint._signal_monkey_patch(self, signum, handler)
signal_monkey_patch(g, t, signum, h) ==
    IF is_main_thread(t) /\ signum = "SIGINT"
    THEN [raised |-> "ValueError", by |-> "guard", table |-> handlers, returned |-> None]
    ELSE CallSignal(orig_signal[g], t, signum, h)

\* a call of whatever object fn is: signal.signal(signum, h) with fn the module
\* attribute, or self.orig_signal(signum, h)
CallSignal(fn, t, signum, h) ==
    IF fn = RealSignal THEN signal_builtin(t, signum, h)
    ELSE IF fn[1] = "_signal_monkey_patch" THEN signal_monkey_patch(fn[2], t, signum, h)
    ELSE [raised |-> "TypeError", by |-> "python", table |-> handlers, returned |-> None]

\* DeferSigint._set_task_cancelled that records nothing (a mutant)
set_task_cancelled_Drop(g) == task_cancelled

\* DeferSigint._set_task_cancelled(self, signum, frame)
set_task_cancelled(g) == [task_cancelled EXCEPT ![g] = TRUE]

\* DeferSigint.create_if_main_thread that always builds a guard (a mutant)
create_if_main_thread_Always(t) == "DeferSigint"

\* DeferSigint.create_if_main_thread()
create_if_main_thread(t) ==
    IF is_main_thread(t) THEN "DeferSigint" ELSE "nullcontext"

\* ------------------------------------------------------- the with statement

EnterPcs == {"enter_getsignal", "enter_install", "enter_save", "enter_patch"}
ExitPcs  == {"exit_assert", "exit_unpatch", "exit_restore", "exit_check"}

Top(t) == stack[t][Len(stack[t])]
Pop(t) == SubSeq(stack[t], 1, Len(stack[t]) - 1)
InScope(t) == Len(stack[t]) > 0
InGuard(t) == InScope(t) /\ Top(t)[1] = "DeferSigint"
CanStep(t) == alive /\ pendingExc[t] = "None"

\* the innermost scope of t ends raising err ("None": it ends normally): the
\* exception reaches the body of the enclosing with statement, or the thread's
\* top level, which handles it
Unwind(t, err) ==
    /\ stack' = [stack EXCEPT ![t] = Pop(t)]
    /\ pc' = [pc EXCEPT ![t] = IF Len(stack[t]) > 1 THEN "body" ELSE "idle"]
    /\ pendingExc' = [pendingExc EXCEPT ![t] = IF Len(stack[t]) > 1 THEN err ELSE "None"]

\* `with DeferSigint():` begins: the instance is constructed (__init__) and its
\* __enter__ is called
BeginGuard(t) ==
    LET g == created + 1
    IN  /\ created < MaxGuards
        /\ created' = g
        /\ task_cancelled' = [task_cancelled EXCEPT ![g] = FALSE]
        /\ orig_sigint_handler' = [orig_sigint_handler EXCEPT ![g] = None]
        /\ orig_signal' = [orig_signal EXCEPT ![g] = None]
        /\ entryHandler' = [entryHandler EXCEPT ![g] = handlers["SIGINT"]]
        /\ entrySignal' = [entrySignal EXCEPT ![g] = signal_signal]
        /\ status' = [status EXCEPT ![g] = "entering"]
        /\ stack' = [stack EXCEPT ![t] = Append(stack[t], Guard(g))]
        /\ pc' = [pc EXCEPT ![t] = "enter_getsignal"]

\* `with contextlib.nullcontext():` begins: its __enter__ does nothing
BeginNull(t) ==
    /\ created < MaxGuards
    /\ created' = created + 1
    /\ stack' = [stack EXCEPT ![t] = Append(stack[t], NullCtx)]
    /\ pc' = [pc EXCEPT ![t] = "body"]
    /\ UNCHANGED <<task_cancelled, orig_sigint_handler, orig_signal,
                   entryHandler, entrySignal, status>>

\* `with DeferSigint.create_if_main_thread():` begins
BeginFactory(t) ==
    /\ CanStep(t)
    /\ pc[t] \in {"idle", "body"}
    /\ IF create_if_main_thread(t) = "DeferSigint" THEN BeginGuard(t) ELSE BeginNull(t)
    /\ UNCHANGED <<handlers, signal_signal, exc_type, pendingExc, alive, delivered,
                   regs, deferred, rejected>>
    /\ UNCHANGED <<fateVars, probeVars, kvVars>>

\* `with DeferSigint():` begins
BeginDirect(t) ==
    /\ CanStep(t)
    /\ pc[t] \in {"idle", "body"}
    /\ BeginGuard(t)
    /\ UNCHANGED <<handlers, signal_signal, exc_type, pendingExc, alive, delivered,
                   regs, deferred, rejected>>
    /\ UNCHANGED <<fateVars, probeVars, kvVars>>

\* `with g:` begins for an instance g made earlier, whose last scope is over:
\* __enter__ is called on it as it is, __init__ is not run again
Reenter(t) ==
    /\ CanStep(t)
    /\ pc[t] \in {"idle", "body"}
    /\ \E g \in Guards :
          /\ status[g] \in {"exit_returned_False", "exit_raised_KeyboardInterrupt"}
          /\ \A i \in 1..Len(stack[t]) : stack[t][i] # Guard(g)
          /\ entryHandler' = [entryHandler EXCEPT ![g] = handlers["SIGINT"]]
          /\ entrySignal' = [entrySignal EXCEPT ![g] = signal_signal]
          /\ deferred' = [deferred EXCEPT ![g] = 0]
          /\ rejected' = [rejected EXCEPT ![g] = 0]
          /\ status' = [status EXCEPT ![g] = "entering"]
          /\ stack' = [stack EXCEPT ![t] = Append(stack[t], Guard(g))]
          /\ pc' = [pc EXCEPT ![t] = "enter_getsignal"]
    /\ UNCHANGED <<handlers, signal_signal, task_cancelled, orig_sigint_handler,
                   orig_signal, exc_type, pendingExc, alive, created, delivered,
                   regs>>
    /\ UNCHANGED <<fateVars, probeVars, kvVars>>

\* __enter__ that takes the original handler to be SIG_DFL (a mutant)
EnterGetsignal_AssumeDefault(t) ==
    /\ CanStep(t) /\ InGuard(t) /\ pc[t] = "enter_getsignal"
    /\ orig_sigint_handler' = [orig_sigint_handler EXCEPT ![Top(t)[2]] = SIG_DFL]
    /\ pc' = [pc EXCEPT ![t] = "enter_install"]
    /\ UNCHANGED <<handlers, signal_signal, task_cancelled, orig_signal, status,
                   exc_type, stack, pendingExc, alive, created, delivered, regs,
                   deferred, entryHandler, entrySignal, rejected>>
    /\ UNCHANGED <<fateVars, probeVars, kvVars>>

\* __enter__: self.orig_sigint_handler = signal.getsignal(signal.SIGINT)
EnterGetsignal(t) ==
    /\ CanStep(t) /\ InGuard(t) /\ pc[t] = "enter_getsignal"
    /\ orig_sigint_handler' = [orig_sigint_handler EXCEPT ![Top(t)[2]] = handlers["SIGINT"]]
    /\ pc' = [pc EXCEPT ![t] = "enter_install"]
    /\ UNCHANGED <<handlers, signal_signal, task_cancelled, orig_signal, status,
                   exc_type, stack, pendingExc, alive, created, delivered, regs,
                   deferred, entryHandler, entrySignal, rejected>>
    /\ UNCHANGED <<fateVars, probeVars, kvVars>>

\* __enter__: signal.signal(signal.SIGINT, self._set_task_cancelled)
EnterInstall(t) ==
    /\ CanStep(t) /\ InGuard(t) /\ pc[t] = "enter_install"
    /\ LET g == Top(t)[2]
           r == CallSignal(signal_signal, t, "SIGINT", Defer(g))
       IN  IF r.raised = "None"
           THEN /\ handlers' = r.table
                /\ pc' = [pc EXCEPT ![t] = "enter_save"]
                /\ UNCHANGED <<status, stack, pendingExc>>
           ELSE /\ status' = [status EXCEPT ![g] = "enter_raised_" \o r.raised]
                /\ Unwind(t, r.raised)
                /\ UNCHANGED handlers
    /\ UNCHANGED <<signal_signal, task_cancelled, orig_sigint_handler, orig_signal,
                   exc_type, alive, created, delivered, regs, deferred, entryHandler,
                   entrySignal, rejected>>
    /\ UNCHANGED <<fateVars, probeVars, kvVars>>

\* __enter__: self.orig_signal = signal.signal
EnterSave(t) ==
    /\ CanStep(t) /\ InGuard(t) /\ pc[t] = "enter_save"
    /\ orig_signal' = [orig_signal EXCEPT ![Top(t)[2]] = signal_signal]
    /\ pc' = [pc EXCEPT ![t] = "enter_patch"]
    /\ UNCHANGED <<handlers, signal_signal, task_cancelled, orig_sigint_handler,
                   status, exc_type, stack, pendingExc, alive, created, delivered,
                   regs, deferred, entryHandler, entrySignal, rejected>>
    /\ UNCHANGED <<fateVars, probeVars, kvVars>>

\* __enter__: signal.signal = self._signal_monkey_patch; return self
EnterPatch(t) ==
    /\ CanStep(t) /\ InGuard(t) /\ pc[t] = "enter_patch"
    /\ signal_signal' = Patch(Top(t)[2])
    /\ status' = [status EXCEPT ![Top(t)[2]] = "body"]
    /\ pc' = [pc EXCEPT ![t] = "body"]
    /\ UNCHANGED <<handlers, task_cancelled, orig_sigint_handler, orig_signal,
                   exc_type, stack, pendingExc, alive, created, delivered, regs,
                   deferred, entryHandler, entrySignal, rejected>>
    /\ UNCHANGED <<fateVars, probeVars, kvVars>>

\* client code, in a scope's body or outside every scope, calls
\* signal.signal(signum, h) through the module attribute; what it raises is in
\* flight in the body it was called from
Register(t, signum, h) ==
    /\ CanStep(t)
    /\ pc[t] \in {"idle", "body"}
    /\ regs < MaxRegs
    /\ regs' = regs + 1
    /\ LET r == CallSignal(signal_signal, t, signum, h)
       IN  /\ handlers' = r.table
           /\ pendingExc' = [pendingExc EXCEPT ![t] =
                                IF InScope(t) THEN r.raised ELSE "None"]
           /\ rejected' = IF r.by = "guard"
                          THEN [rejected EXCEPT ![signal_signal[2]] = @ + 1]
                          ELSE rejected
    /\ UNCHANGED <<signal_signal, task_cancelled, orig_sigint_handler, orig_signal,
                   status, exc_type, stack, pc, alive, created, delivered, deferred,
                   entryHandler, entrySignal>>
    /\ UNCHANGED <<fateVars, probeVars, kvVars>>

\* the body handles the exception in flight and goes on
BodyCatch(t) ==
    /\ alive /\ InScope(t) /\ pc[t] = "body" /\ pendingExc[t] # "None"
    /\ pendingExc' = [pendingExc EXCEPT ![t] = "None"]
    /\ UNCHANGED <<handlers, signal_signal, task_cancelled, orig_sigint_handler,
                   orig_signal, status, exc_type, stack, pc, alive, created,
                   delivered, regs, deferred, entryHandler, entrySignal, rejected>>
    /\ UNCHANGED <<fateVars, probeVars, kvVars>>

\* the body is left with exception e ("None": it completed), and the with
\* statement calls __exit__(e, ...). nullcontext.__exit__ does nothing, so the
\* exception, if any, goes on.
LeaveBody(t, e) ==
    /\ IF Top(t)[1] = "DeferSigint"
       THEN /\ exc_type' = [exc_type EXCEPT ![Top(t)[2]] = e]
            /\ status' = [status EXCEPT ![Top(t)[2]] = "exiting"]
            /\ pc' = [pc EXCEPT ![t] = "exit_assert"]
            /\ pendingExc' = [pendingExc EXCEPT ![t] = "None"]
            /\ UNCHANGED stack
       ELSE /\ Unwind(t, e)
            /\ UNCHANGED <<exc_type, status>>
    /\ UNCHANGED <<handlers, signal_signal, task_cancelled, orig_sigint_handler,
                   orig_signal, alive, created, delivered, regs, deferred,
                   entryHandler, entrySignal, rejected>>

\* the body completes normally
BodyReturn(t) ==
    /\ CanStep(t) /\ InScope(t) /\ pc[t] = "body"
    /\ LeaveBody(t, "None")
    /\ UNCHANGED <<fateVars, probeVars, kvVars>>

\* the body raises a failure of its own
BodyRaise(t) ==
    /\ CanStep(t) /\ InScope(t) /\ pc[t] = "body"
    /\ LeaveBody(t, "Failure")
    /\ UNCHANGED <<fateVars, probeVars, kvVars>>

\* the body does not handle the exception in flight
BodyPropagate(t) ==
    /\ alive /\ InScope(t) /\ pc[t] = "body" /\ pendingExc[t] # "None"
    /\ LeaveBody(t, pendingExc[t])
    /\ UNCHANGED <<fateVars, probeVars, kvVars>>

\* __exit__: assert self.orig_sigint_handler is not None
\*           assert self.orig_signal is not None
ExitAssert(t) ==
    /\ CanStep(t) /\ InGuard(t) /\ pc[t] = "exit_assert"
    /\ LET g == Top(t)[2]
       IN  IF orig_sigint_handler[g] # None /\ orig_signal[g] # None
           THEN /\ pc' = [pc EXCEPT ![t] = "exit_unpatch"]
                /\ UNCHANGED <<status, stack, pendingExc>>
           ELSE /\ status' = [status EXCEPT ![g] = "exit_raised_AssertionError"]
                /\ Unwind(t, "AssertionError")
    /\ UNCHANGED <<handlers, signal_signal, task_cancelled, orig_sigint_handler,
                   orig_signal, exc_type, alive, created, delivered, regs, deferred,
                   entryHandler, entrySignal, rejected>>
    /\ UNCHANGED <<fateVars, probeVars, kvVars>>

\* __exit__ that leaves signal.signal patched (a mutant)
ExitUnpatch_Skip(t) ==
    /\ CanStep(t) /\ InGuard(t) /\ pc[t] = "exit_unpatch"
    /\ pc' = [pc EXCEPT ![t] = "exit_restore"]
    /\ UNCHANGED <<handlers, signal_signal, task_cancelled, orig_sigint_handler,
                   orig_signal, status, exc_type, stack, pendingExc, alive, created,
                   delivered, regs, deferred, entryHandler, entrySignal, rejected>>
    /\ UNCHANGED <<fateVars, probeVars, kvVars>>

\* __exit__: signal.signal = self.orig_signal
ExitUnpatch(t) ==
    /\ CanStep(t) /\ InGuard(t) /\ pc[t] = "exit_unpatch"
    /\ signal_signal' = orig_signal[Top(t)[2]]
    /\ pc' = [pc EXCEPT ![t] = "exit_restore"]
    /\ UNCHANGED <<handlers, task_cancelled, orig_sigint_handler, orig_signal, status,
                   exc_type, stack, pendingExc, alive, created, delivered, regs,
                   deferred, entryHandler, entrySignal, rejected>>
    /\ UNCHANGED <<fateVars, probeVars, kvVars>>

\* __exit__: signal.signal(signal.SIGINT, self.orig_sigint_handler)
ExitRestore(t) ==
    /\ CanStep(t) /\ InGuard(t) /\ pc[t] = "exit_restore"
    /\ LET g == Top(t)[2]
           r == CallSignal(signal_signal, t, "SIGINT", orig_sigint_handler[g])
       IN  IF r.raised = "None"
           THEN /\ handlers' = r.table
                /\ pc' = [pc EXCEPT ![t] = "exit_check"]
                /\ UNCHANGED <<status, stack, pendingExc>>
           ELSE /\ status' = [status EXCEPT ![g] = "exit_raised_" \o r.raised]
                /\ Unwind(t, r.raised)
                /\ UNCHANGED handlers
    /\ UNCHANGED <<signal_signal, task_cancelled, orig_sigint_handler, orig_signal,
                   exc_type, alive, created, delivered, regs, deferred, entryHandler,
                   entrySignal, rejected>>
    /\ UNCHANGED <<fateVars, probeVars, kvVars>>

\* __exit__'s test that ignores exc_type (a mutant)
exit_raises_IgnoreExc(g) == task_cancelled[g]

\* __exit__'s test that never raises (a mutant)
exit_raises_Never(g) == FALSE

\* __exit__: exc_type is None and self.task_cancelled
exit_raises(g) == exc_type[g] = "None" /\ task_cancelled[g]

\* __exit__: if exc_type is None and self.task_cancelled: raise KeyboardInterrupt
\*           else: return False
ExitCheck(t) ==
    /\ CanStep(t) /\ InGuard(t) /\ pc[t] = "exit_check"
    /\ LET g == Top(t)[2]
       IN  IF exit_raises(g)
           THEN /\ status' = [status EXCEPT ![g] = "exit_raised_KeyboardInterrupt"]
                /\ Unwind(t, "KeyboardInterrupt")
           ELSE /\ status' = [status EXCEPT ![g] = "exit_returned_False"]
                /\ Unwind(t, exc_type[g])
    /\ UNCHANGED <<handlers, signal_signal, task_cancelled, orig_sigint_handler,
                   orig_signal, exc_type, alive, created, delivered, regs, deferred,
                   entryHandler, entrySignal, rejected>>
    /\ UNCHANGED <<fateVars, probeVars, kvVars>>

\* SIGINT arrives; Python runs the handler installed for it on the main thread,
\* between two of the main thread's statements.
\*   a guard's _set_task_cancelled records the arrival;
\*   default_int_handler raises KeyboardInterrupt where the main thread stands:
\*     in a body the with statement passes it on to __exit__, inside __enter__
\*     or __exit__ it ends that call;
\*   SIG_DFL ends the process; SIG_IGN does nothing; a user handler runs; a
\*   handler that is not Python's (getsignal reports None) runs outside Python.
Deliver ==
    /\ alive
    /\ delivered < MaxDeliveries
    /\ delivered' = delivered + 1
    /\ LET h == handlers["SIGINT"]
           t == "main"
       IN  IF h[1] = "_set_task_cancelled"
           THEN /\ task_cancelled' = set_task_cancelled(h[2])
                /\ deferred' = [deferred EXCEPT ![h[2]] = @ + 1]
                /\ UNCHANGED <<status, stack, pc, pendingExc, alive>>
           ELSE /\ UNCHANGED <<task_cancelled, deferred>>
                /\ IF h = SIG_DFL
                   THEN /\ alive' = FALSE
                        /\ UNCHANGED <<status, stack, pc, pendingExc>>
                   ELSE IF h = default_int_handler /\ InScope(t)
                   THEN /\ UNCHANGED alive
                        /\ IF pc[t] = "body"
                           THEN /\ pendingExc' = [pendingExc EXCEPT ![t] = "KeyboardInterrupt"]
                                /\ UNCHANGED <<status, stack, pc>>
                           ELSE /\ status' = [status EXCEPT ![Top(t)[2]] =
                                              IF pc[t] \in EnterPcs THEN "enter_interrupted"
                                                                    ELSE "exit_interrupted"]
                                /\ Unwind(t, "KeyboardInterrupt")
                   ELSE UNCHANGED <<status, stack, pc, pendingExc, alive>>
    /\ UNCHANGED <<handlers, signal_signal, orig_sigint_handler, orig_signal,
                   exc_type, created, regs, entryHandler, entrySignal, rejected>>
    /\ UNCHANGED <<fateVars, probeVars, kvVars>>

\* no DeferSigint made yet, signal.signal untouched
NoGuardYet ==
    /\ signal_signal = RealSignal
    /\ task_cancelled = [g \in Guards |-> FALSE]
    /\ orig_sigint_handler = [g \in Guards |-> None]
    /\ orig_signal = [g \in Guards |-> None]
    /\ status = [g \in Guards |-> "unused"]
    /\ exc_type = [g \in Guards |-> "None"]
    /\ stack = [t \in Threads |-> <<>>]
    /\ pc = [t \in Threads |-> "idle"]
    /\ pendingExc = [t \in Threads |-> "None"]
    /\ alive = TRUE
    /\ created = 0
    /\ delivered = 0
    /\ regs = 0
    /\ deferred = [g \in Guards |-> 0]
    /\ rejected = [g \in Guards |-> 0]
    /\ entryHandler = [g \in Guards |-> None]
    /\ entrySignal = [g \in Guards |-> None]

\* a CPython process starts with SIGINT handled by default_int_handler, or by
\* SIG_IGN when it inherited an ignored SIGINT; client code may have installed
\* any handler since
SigInit ==
    /\ handlers \in [Signals -> Installable]
    /\ handlers["SIGTERM"] = SIG_DFL
    /\ NoGuardYet

\* a process whose SIGINT handler may also have been installed by code that is
\* not Python (an embedding application, an extension module):
\* signal.getsignal then reports None
ForeignInit ==
    /\ handlers \in [Signals -> Installable \cup {None}]
    /\ handlers["SIGTERM"] = SIG_DFL
    /\ NoGuardYet

Step(t) ==
    \/ BeginFactory(t)
    \/ BeginDirect(t)
    \/ EnterGetsignal(t)
    \/ EnterInstall(t)
    \/ EnterSave(t)
    \/ EnterPatch(t)
    \/ \E s \in Signals, h \in Installable : Register(t, s, h)
    \/ BodyCatch(t)
    \/ BodyReturn(t)
    \/ BodyRaise(t)
    \/ BodyPropagate(t)
    \/ ExitAssert(t)
    \/ ExitUnpatch(t)
    \/ ExitRestore(t)
    \/ ExitCheck(t)

\* ------------------------------------------------------------ fate-sharing

\* helper calls in one run
MaxCalls == 3

\* JOB_OBJECT_LIMIT_* names, for the bits the probe sets in LimitFlags
KILL_ON_JOB_CLOSE           == "JOB_OBJECT_LIMIT_KILL_ON_JOB_CLOSE"
DIE_ON_UNHANDLED_EXCEPTION  == "JOB_OBJECT_LIMIT_DIE_ON_UNHANDLED_EXCEPTION"
BREAKAWAY_OK                == "JOB_OBJECT_LIMIT_BREAKAWAY_OK"

\* what loading a library and setting up its functions can end with: "ok", an
\* exception the probes catch, or OSError (the library cannot be loaded), which
\* they do not catch
LoadOutcomes == {"ok", "AttributeError", "TypeError", "OSError"}

NoCall == [fn |-> "none", raised |-> "None", errno |-> 0, detected |-> "not_called",
           primitive |-> FALSE, warnings |-> 0]

\* detect_fate_sharing_support_linux that probes on every call (a mutant)
detect_fate_sharing_support_linux_NoMemo ==
    IF platform = "linux"
    THEN IF os_facts.libc = "ok"
         THEN [ret |-> TRUE, raised |-> "None", prctl |-> "prctl", probes |-> 1,
         warnings |-> 0]
         ELSE [ret |-> FALSE, raised |-> "None", prctl |-> "False", probes |-> 1,
         warnings |-> 0]
    ELSE [ret |-> FALSE, raised |-> "None", prctl |-> linux_prctl, probes |-> 0,
    warnings |-> 0]

\* detect_fate_sharing_support_linux that does not store what it found (a mutant)
detect_fate_sharing_support_linux_NoStore ==
    [ret |-> platform = "linux" /\ os_facts.libc = "ok", raised |-> "None",
     prctl |-> linux_prctl, probes |-> 1, warnings |-> 0]

\* detect_fate_sharing_support_linux(): the value it returns ("raised": it
\* raises instead), linux_prctl after it, and the logger.warning calls it made
detect_fate_sharing_support_linux ==
    IF linux_prctl = "None" /\ platform = "linux"
    THEN CASE os_facts.libc = "ok"      -> [ret |-> TRUE, raised |-> "None", prctl |-> "prctl",
                                            probes |-> 1, warnings |-> 0]
           [] os_facts.libc = "OSError" -> [ret |-> FALSE, raised |-> "OSError",
                                            prctl |-> linux_prctl, probes |-> 1,
                                            warnings |-> 0]
           [] OTHER                     -> [ret |-> FALSE, raised |-> "None", prctl |-> "False",
                                            probes |-> 1, warnings |-> 0]
    ELSE [ret |-> linux_prctl = "prctl", raised |-> "None", prctl |-> linux_prctl,
          probes |-> 0, warnings |-> 0]

\* LimitFlags without JOB_OBJECT_LIMIT_KILL_ON_JOB_CLOSE (a mutant)
LimitFlags_NoKill(debug) == {DIE_ON_UNHANDLED_EXCEPTION, BREAKAWAY_OK}

\* LimitFlags with JOB_OBJECT_LIMIT_KILL_ON_JOB_CLOSE whatever debug is (a mutant)
LimitFlags_AlwaysKill(debug) ==
    {KILL_ON_JOB_CLOSE, DIE_ON_UNHANDLED_EXCEPTION, BREAKAWAY_OK}

\* LimitFlags as the probe computes them
LimitFlags(debug) ==
    (IF debug THEN {} ELSE {KILL_ON_JOB_CLOSE}) \cup {DIE_ON_UNHANDLED_EXCEPTION, BREAKAWAY_OK}

\* detect_fate_sharing_support_win32(): the value it returns, the two globals
\* after it, and the flags of the job object it keeps
detect_fate_sharing_support_win32 ==
    IF win32_job = "None" /\ platform = "win32"
    THEN IF os_facts.kernel32 = "OSError"
         THEN [ret |-> FALSE, raised |-> "OSError", job |-> win32_job,
               assign |-> win32_AssignProcessToJobObject, flags |-> job_flags,
               probes |-> 1, warnings |-> 0, jobs |-> 0]
         ELSE LET kernel32 == os_facts.kernel32 = "ok"
                  created_ == kernel32 /\ os_facts.create_job
                  job == created_ /\ os_facts.set_information
              IN  [ret |-> job, raised |-> "None",
                   job |-> IF job THEN "job" ELSE "False",
                   assign |-> IF kernel32 THEN "function" ELSE "False",
                   flags |-> IF job THEN LimitFlags(os_facts.debugger) ELSE {},
                   probes |-> 1, warnings |-> 0, jobs |-> IF created_ THEN 1 ELSE 0]
    ELSE [ret |-> win32_job = "job", raised |-> "None", job |-> win32_job,
          assign |-> win32_AssignProcessToJobObject, flags |-> job_flags,
          probes |-> 0, warnings |-> 0, jobs |-> 0]

\* bool(linux_prctl), bool(win32_job), as the probes return them
CachedLinux == IF linux_prctl = "prctl" THEN "True" ELSE "False"
CachedWin32 == IF win32_job = "job" THEN "True" ELSE "False"

\* a client calls detect_fate_sharing_support_linux()
CallDetectLinux ==
    /\ parent = "alive" /\ calls < MaxCalls
    /\ calls' = calls + 1
    /\ LET r == detect_fate_sharing_support_linux
       IN  /\ linux_prctl' = r.prctl
           /\ last_call' = [fn |-> "detect_fate_sharing_support_linux",
                            raised |-> r.raised, errno |-> 0,
                            detected |-> IF r.raised # "None" THEN "raised"
                                         ELSE IF r.ret THEN "True" ELSE "False",
                            primitive |-> FALSE, warnings |-> r.warnings]
           /\ probes' = probes + r.probes
    /\ UNCHANGED <<platform, os_facts, win32_job, win32_AssignProcessToJobObject,
                   job_flags, job_members, pdeathsig, parent, child, prim_calls,
                   bound_at_exit, os_errno, ctypes_errno, jobs_created>>
    /\ UNCHANGED <<sigVars, probeVars, kvVars>>

\* a client calls detect_fate_sharing_support_win32()
CallDetectWin32 ==
    /\ parent = "alive" /\ calls < MaxCalls
    /\ calls' = calls + 1
    /\ LET r == detect_fate_sharing_support_win32
       IN  /\ win32_job' = r.job
           /\ win32_AssignProcessToJobObject' = r.assign
           /\ job_flags' = r.flags
           /\ last_call' = [fn |-> "detect_fate_sharing_support_win32",
                            raised |-> r.raised, errno |-> 0,
                            detected |-> IF r.raised # "None" THEN "raised"
                                         ELSE IF r.ret THEN "True" ELSE "False",
                            primitive |-> FALSE, warnings |-> r.warnings]
           /\ probes' = probes + r.probes
           /\ jobs_created' = jobs_created + r.jobs
    /\ UNCHANGED <<platform, os_facts, linux_prctl, job_members, pdeathsig, parent,
                   child, prim_calls, bound_at_exit, os_errno, ctypes_errno>>
    /\ UNCHANGED <<sigVars, probeVars, kvVars>>

\* a client calls detect_fate_sharing_support(): result = None, then the probe
\* of the platform if there is one; return result
CallDetect ==
    /\ parent = "alive" /\ calls < MaxCalls
    /\ calls' = calls + 1
    /\ IF platform = "win32"
       THEN LET r == detect_fate_sharing_support_win32
            IN  /\ win32_job' = r.job
                /\ win32_AssignProcessToJobObject' = r.assign
                /\ job_flags' = r.flags
                /\ probes' = probes + r.probes
                /\ jobs_created' = jobs_created + r.jobs
                /\ last_call' = [fn |-> "detect_fate_sharing_support",
                                 raised |-> r.raised, errno |-> 0,
                                 detected |-> IF r.raised # "None" THEN "raised"
                                              ELSE IF r.ret THEN "True" ELSE "False",
                                 primitive |-> FALSE, warnings |-> r.warnings]
                /\ UNCHANGED linux_prctl
       ELSE IF platform = "linux"
       THEN LET r == detect_fate_sharing_support_linux
            IN  /\ linux_prctl' = r.prctl
                /\ probes' = probes + r.probes
                /\ last_call' = [fn |-> "detect_fate_sharing_support",
                                 raised |-> r.raised, errno |-> 0,
                                 detected |-> IF r.raised # "None" THEN "raised"
                                              ELSE IF r.ret THEN "True" ELSE "False",
                                 primitive |-> FALSE, warnings |-> r.warnings]
                /\ UNCHANGED <<win32_job, win32_AssignProcessToJobObject, job_flags,
                               jobs_created>>
       ELSE /\ last_call' = [fn |-> "detect_fate_sharing_support", raised |-> "None",
                             errno |-> 0, detected |-> "None", primitive |-> FALSE,
                             warnings |-> 0]
            /\ UNCHANGED <<linux_prctl, win32_job, win32_AssignProcessToJobObject,
                           job_flags, probes, jobs_created>>
    /\ UNCHANGED <<platform, os_facts, job_members, pdeathsig, parent, child,
                   prim_calls, bound_at_exit, os_errno, ctypes_errno>>
    /\ UNCHANGED <<sigVars, probeVars, kvVars>>

\* the error codes a failed OS call can leave: EPERM, EINVAL (Linux);
\* ERROR_ACCESS_DENIED, ERROR_INVALID_HANDLE (Windows)
OsErrors == {1, 5, 6, 22}

\* ctypes.get_errno(): ctypes' private copy of errno. ctypes swaps the thread's
\* errno with it around a foreign call only for a library loaded with
\* use_errno=True; CDLL(None) is loaded without, so prctl leaves it as it was
get_errno == ctypes_errno

\* ctypes.get_last_error(): ctypes' private copy of the last error code, swapped
\* only for a library loaded with use_last_error=True; WinDLL("kernel32") is
\* loaded without
get_last_error == ctypes_errno

\* AssignProcessToJobObject that assigns nothing (a mutant)
AssignProcessToJobObject_Drop(ok) == job_members

\* win32_AssignProcessToJobObject(win32_job, int(child_proc)): the job's members
\* after it answered nonzero (ok) or zero
AssignProcessToJobObject(ok) == IF ok THEN job_members \cup {"child"} ELSE job_members

\* the supervisor spawns the child
Spawn ==
    /\ parent = "alive" /\ child = "none"
    /\ child' = "running"
    /\ UNCHANGED <<platform, os_facts, linux_prctl, win32_job,
                   win32_AssignProcessToJobObject, job_flags, job_members, pdeathsig,
                   parent, calls, last_call, prim_calls, bound_at_exit, os_errno,
                   ctypes_errno, probes, jobs_created>>
    /\ UNCHANGED <<sigVars, probeVars, kvVars>>

\* set_kill_on_parent_death_linux whose else branch does nothing (a mutant)
linux_unavailable_Silent == "None"

\* set_kill_on_parent_death_linux:
\*   else: assert False, "PR_SET_PDEATHSIG used despite being unavailable"
linux_unavailable == "AssertionError"

\* set_kill_on_parent_death_linux(), "Linux-only. Must be called in preexec_fn
\* (i.e. by the child)": the child runs it before it execs; prctl answers 0 or,
\* failing with errno e, nonzero
BindLinux(rc, e) ==
    /\ platform = "linux"
    /\ child = "running" /\ calls < MaxCalls
    /\ calls' = calls + 1
    /\ LET r == detect_fate_sharing_support_linux
       IN  /\ linux_prctl' = r.prctl
           /\ probes' = probes + r.probes
           /\ IF r.raised # "None"
              THEN /\ last_call' = [fn |-> "set_kill_on_parent_death_linux",
                                    raised |-> r.raised, errno |-> 0,
                                    detected |-> "raised", primitive |-> FALSE,
                                    warnings |-> r.warnings]
                   /\ UNCHANGED <<pdeathsig, prim_calls, os_errno>>
              ELSE IF r.ret
              THEN /\ prim_calls' = prim_calls + 1
                   /\ pdeathsig' = IF rc = 0 THEN "SIGKILL" ELSE pdeathsig
                   /\ os_errno' = IF rc = 0 THEN os_errno ELSE e
                   /\ last_call' = [fn |-> "set_kill_on_parent_death_linux",
                                    raised |-> IF rc = 0 THEN "None" ELSE "OSError",
                                    errno |-> IF rc = 0 THEN 0 ELSE get_errno,
                                    detected |-> "True", primitive |-> TRUE,
                                    warnings |-> r.warnings]
              ELSE /\ last_call' = [fn |-> "set_kill_on_parent_death_linux",
                                    raised |-> linux_unavailable, errno |-> 0,
                                    detected |-> "False", primitive |-> FALSE,
                                    warnings |-> r.warnings]
                   /\ UNCHANGED <<pdeathsig, prim_calls, os_errno>>
    /\ UNCHANGED <<platform, os_facts, win32_job, win32_AssignProcessToJobObject,
                   job_flags, job_members, parent, child, bound_at_exit,
                   ctypes_errno, jobs_created>>
    /\ UNCHANGED <<sigVars, probeVars, kvVars>>

\* set_kill_child_on_death_win32:
\*   else: assert False, "AssignProcessToJobObject used despite being unavailable"
win32_unavailable == "AssertionError"

\* set_kill_child_on_death_win32(child_proc), "Windows-only. Must be called by
\* the parent, after spawning the child": arg is what child_proc is, a
\* subprocess.Popen, a subprocess.Handle or something else;
\* AssignProcessToJobObject answers nonzero (ok) or zero
BindWin32(arg, ok) ==
    /\ platform = "win32"
    /\ parent = "alive" /\ child = "running" /\ calls < MaxCalls
    /\ calls' = calls + 1
    /\ IF arg \notin {"Popen", "Handle"}
       THEN /\ last_call' = [fn |-> "set_kill_child_on_death_win32",
                             raised |-> "AssertionError", errno |-> 0,
                             detected |-> "not_called", primitive |-> FALSE, warnings |-> 0]
            /\ UNCHANGED <<win32_job, win32_AssignProcessToJobObject, job_flags,
                           job_members, prim_calls, os_errno, probes, jobs_created>>
       ELSE LET r == detect_fate_sharing_support_win32
            IN  /\ win32_job' = r.job
                /\ win32_AssignProcessToJobObject' = r.assign
                /\ job_flags' = r.flags
                /\ probes' = probes + r.probes
                /\ jobs_created' = jobs_created + r.jobs
                /\ IF r.raised # "None"
                   THEN /\ last_call' = [fn |-> "set_kill_child_on_death_win32",
                                         raised |-> r.raised, errno |-> 0,
                                         detected |-> "raised", primitive |-> FALSE,
                                         warnings |-> r.warnings]
                        /\ UNCHANGED <<job_members, prim_calls, os_errno>>
                   ELSE IF r.ret
                   THEN /\ prim_calls' = prim_calls + 1
                        /\ job_members' = AssignProcessToJobObject(ok)
                        /\ IF ok THEN UNCHANGED os_errno ELSE os_errno' \in OsErrors
                        /\ last_call' = [fn |-> "set_kill_child_on_death_win32",
                                         raised |-> IF ok THEN "None" ELSE "OSError",
                                         errno |-> IF ok THEN 0 ELSE get_last_error,
                                         detected |-> "True", primitive |-> TRUE,
                                         warnings |-> r.warnings]
                   ELSE /\ last_call' = [fn |-> "set_kill_child_on_death_win32",
                                         raised |-> win32_unavailable, errno |-> 0,
                                         detected |-> "False", primitive |-> FALSE,
                                         warnings |-> r.warnings]
                        /\ UNCHANGED <<job_members, prim_calls, os_errno>>
    /\ UNCHANGED <<platform, os_facts, linux_prctl, pdeathsig, parent, child,
                   bound_at_exit, ctypes_errno>>
    /\ UNCHANGED <<sigVars, probeVars, kvVars>>

\* the child is bound: it asked for SIGKILL on its parent's death, or it is a
\* member of the parent's job object
Bound == pdeathsig = "SIGKILL" \/ "child" \in job_members

\* the parent terminates, for whatever reason
ParentExits ==
    /\ parent = "alive"
    /\ parent' = "exited"
    /\ bound_at_exit' = (child = "running" /\ Bound)
    /\ UNCHANGED <<platform, os_facts, linux_prctl, win32_job,
                   win32_AssignProcessToJobObject, job_flags, job_members, pdeathsig,
                   child, calls, last_call, prim_calls, os_errno, ctypes_errno,
                   probes, jobs_created>>
    /\ UNCHANGED <<sigVars, probeVars, kvVars>>

\* the kernel cleans up after the parent: a child that set PR_SET_PDEATHSIG to
\* SIGKILL before the parent exited is killed; the parent's handle of the job
\* object, the only one, is closed, and a job with KILL_ON_JOB_CLOSE terminates
\* its member processes
KernelCleanup ==
    /\ parent = "exited"
    /\ parent' = "reaped"
    /\ child' = IF child = "running" /\ bound_at_exit
                   /\ (pdeathsig = "SIGKILL"
                       \/ ("child" \in job_members /\ KILL_ON_JOB_CLOSE \in job_flags))
                THEN "dead" ELSE child
    /\ UNCHANGED <<platform, os_facts, linux_prctl, win32_job,
                   win32_AssignProcessToJobObject, job_flags, job_members, pdeathsig,
                   calls, last_call, prim_calls, bound_at_exit, os_errno,
                   ctypes_errno, probes, jobs_created>>
    /\ UNCHANGED <<sigVars, probeVars, kvVars>>

\* the helpers have not been used
FateIdle ==
    /\ platform = "linux"
    /\ os_facts = [libc |-> "ok", kernel32 |-> "ok", create_job |-> TRUE,
                   set_information |-> TRUE, debugger |-> FALSE]
    /\ linux_prctl = "None"
    /\ win32_job = "None"
    /\ win32_AssignProcessToJobObject = "None"
    /\ job_flags = {}
    /\ job_members = {}
    /\ pdeathsig = "none"
    /\ parent = "alive"
    /\ child = "none"
    /\ calls = 0
    /\ last_call = NoCall
    /\ prim_calls = 0
    /\ bound_at_exit = FALSE
    /\ os_errno = 0
    /\ ctypes_errno = 0
    /\ probes = 0
    /\ jobs_created = 0

\* a host: a platform and its answers; the module's globals as the import left them
FateInit ==
    /\ platform \in {"linux", "win32", "darwin"}
    /\ os_facts \in [libc : LoadOutcomes, kernel32 : LoadOutcomes \cup {"ImportError"},
                     create_job : BOOLEAN, set_information : BOOLEAN,
                     debugger : BOOLEAN]
    /\ platform # "linux" => os_facts.libc = "ok"
    /\ platform # "win32" => /\ os_facts.kernel32 = "ok"
                             /\ os_facts.create_job /\ os_facts.set_information
                             /\ ~os_facts.debugger
    /\ linux_prctl = "None"
    /\ win32_job = "None"
    /\ win32_AssignProcessToJobObject = "None"
    /\ job_flags = {}
    /\ job_members = {}
    /\ pdeathsig = "none"
    /\ parent = "alive"
    /\ child = "none"
    /\ calls = 0
    /\ last_call = NoCall
    /\ prim_calls = 0
    /\ bound_at_exit = FALSE
    /\ os_errno = 0
    \* untouched, or left by an earlier call through a use_errno library
    /\ ctypes_errno \in {0, 1}
    /\ probes = 0
    /\ jobs_created = 0

FateNext ==
    \/ CallDetect
    \/ CallDetectLinux
    \/ CallDetectWin32
    \/ Spawn
    \/ \E rc \in {0, 1}, e \in OsErrors : BindLinux(rc, e)
    \/ \E arg \in {"Popen", "Handle", "int"}, ok \in BOOLEAN : BindWin32(arg, ok)
    \/ ParentExits
    \/ KernelCleanup

\* ------------------------------------ the probes, statement by statement

\* the threads that call a probe; Python may switch threads between any two
\* statements of it
Probers == {"t1", "t2"}

NoLocals == [lib |-> "None", job |-> FALSE, flags |-> {}]

\* the fate variables no statement of a probe writes
probeFrame == <<platform, os_facts, job_members, pdeathsig, parent, child,
                last_call, prim_calls, bound_at_exit, os_errno, ctypes_errno>>

\* no thread is in a probe
ProbeIdle ==
    /\ probe_pc = [p \in Probers |-> "idle"]
    /\ probe_local = [p \in Probers |-> NoLocals]
    /\ probe_ret = [p \in Probers |-> "none"]

\* the probe's test, `if win32_job is None and sys.platform == "win32"` or
\* `if linux_prctl is None and sys.platform.startswith("linux")`
probe_needed ==
    \/ platform = "linux" /\ linux_prctl = "None"
    \/ platform = "win32" /\ win32_job = "None"

\* thread p calls the probe of the host's platform
ProbeCall(p) ==
    /\ parent = "alive" /\ probe_pc[p] = "idle" /\ calls < MaxCalls
    /\ calls' = calls + 1
    /\ probe_pc' = [probe_pc EXCEPT ![p] = "test"]
    /\ probe_local' = [probe_local EXCEPT ![p] = NoLocals]
    /\ UNCHANGED <<probe_ret, probeFrame, linux_prctl, win32_job,
                   win32_AssignProcessToJobObject, job_flags, probes, jobs_created>>
    /\ UNCHANGED <<sigVars, kvVars>>

\* the test of the cache
ProbeTest(p) ==
    /\ probe_pc[p] = "test"
    /\ probe_pc' = [probe_pc EXCEPT ![p] = IF probe_needed THEN "load" ELSE "return"]
    /\ UNCHANGED <<probe_local, probe_ret, probeFrame, calls, linux_prctl, win32_job,
                   win32_AssignProcessToJobObject, job_flags, probes, jobs_created>>
    /\ UNCHANGED <<sigVars, kvVars>>

\* the try block: the library is loaded and the functions' signatures are set;
\* AttributeError, TypeError (and, on Windows, ImportError) leave None, OSError
\* ends the call
ProbeLoad(p) ==
    /\ probe_pc[p] = "load"
    /\ probes' = probes + 1
    /\ LET outcome == IF platform = "linux" THEN os_facts.libc ELSE os_facts.kernel32
       IN  IF outcome = "OSError"
           THEN /\ probe_pc' = [probe_pc EXCEPT ![p] = "idle"]
                /\ probe_ret' = [probe_ret EXCEPT ![p] = "raised"]
                /\ UNCHANGED probe_local
           ELSE /\ probe_pc' = [probe_pc EXCEPT ![p] =
                                   IF platform = "linux" THEN "store" ELSE "create"]
                /\ probe_local' = [probe_local EXCEPT ![p].lib =
                                      IF outcome = "ok" THEN "ok" ELSE "absent"]
                /\ UNCHANGED probe_ret
    /\ UNCHANGED <<probeFrame, calls, linux_prctl, win32_job,
                   win32_AssignProcessToJobObject, job_flags, jobs_created>>
    /\ UNCHANGED <<sigVars, kvVars>>

\* job = kernel32.CreateJobObjectW(None, None) if kernel32 else None
ProbeCreate(p) ==
    /\ probe_pc[p] = "create"
    /\ probe_pc' = [probe_pc EXCEPT ![p] = "configure"]
    /\ IF probe_local[p].lib = "ok" /\ os_facts.create_job
       THEN /\ jobs_created' = jobs_created + 1
            /\ probe_local' = [probe_local EXCEPT ![p].job = TRUE]
       ELSE UNCHANGED <<jobs_created, probe_local>>
    /\ UNCHANGED <<probe_ret, probeFrame, calls, linux_prctl, win32_job,
                   win32_AssignProcessToJobObject, job_flags, probes>>
    /\ UNCHANGED <<sigVars, kvVars>>

\* if job: ... if not kernel32.SetInformationJobObject(...): job = None
ProbeConfigure(p) ==
    /\ probe_pc[p] = "configure"
    /\ probe_pc' = [probe_pc EXCEPT ![p] = "store_assign"]
    /\ probe_local' = [probe_local EXCEPT ![p] =
          IF ~probe_local[p].job THEN @
          ELSE IF os_facts.set_information
          THEN [@ EXCEPT !.flags = LimitFlags(os_facts.debugger)]
          ELSE [@ EXCEPT !.job = FALSE]]
    /\ UNCHANGED <<probe_ret, probeFrame, calls, linux_prctl, win32_job,
                   win32_AssignProcessToJobObject, job_flags, probes, jobs_created>>
    /\ UNCHANGED <<sigVars, kvVars>>

\* the probe without its assignment to win32_AssignProcessToJobObject (a mutant)
ProbeStoreAssign_Skip(p) ==
    /\ probe_pc[p] = "store_assign"
    /\ probe_pc' = [probe_pc EXCEPT ![p] = "store"]
    /\ UNCHANGED <<probe_local, probe_ret, probeFrame, calls, linux_prctl, win32_job,
                   win32_AssignProcessToJobObject, job_flags, probes, jobs_created>>
    /\ UNCHANGED <<sigVars, kvVars>>

\* win32_AssignProcessToJobObject = (kernel32.AssignProcessToJobObject
\*                                   if kernel32 is not None else False)
ProbeStoreAssign(p) ==
    /\ probe_pc[p] = "store_assign"
    /\ probe_pc' = [probe_pc EXCEPT ![p] = "store"]
    /\ win32_AssignProcessToJobObject' =
          IF probe_local[p].lib = "ok" THEN "function" ELSE "False"
    /\ UNCHANGED <<probe_local, probe_ret, probeFrame, calls, linux_prctl, win32_job,
                   job_flags, probes, jobs_created>>
    /\ UNCHANGED <<sigVars, kvVars>>

\* win32_job = job if job else False; linux_prctl = prctl if prctl else False
ProbeStore(p) ==
    /\ probe_pc[p] = "store"
    /\ probe_pc' = [probe_pc EXCEPT ![p] = "return"]
    /\ IF platform = "linux"
       THEN /\ linux_prctl' = IF probe_local[p].lib = "ok" THEN "prctl" ELSE "False"
            /\ UNCHANGED <<win32_job, job_flags>>
       ELSE /\ win32_job' = IF probe_local[p].job THEN "job" ELSE "False"
            /\ job_flags' = probe_local[p].flags
            /\ UNCHANGED linux_prctl
    /\ UNCHANGED <<probe_local, probe_ret, probeFrame, calls,
                   win32_AssignProcessToJobObject, probes, jobs_created>>
    /\ UNCHANGED <<sigVars, kvVars>>

\* return bool(win32_job); return bool(linux_prctl)
ProbeReturn(p) ==
    /\ probe_pc[p] = "return"
    /\ probe_pc' = [probe_pc EXCEPT ![p] = "idle"]
    /\ probe_ret' = [probe_ret EXCEPT ![p] =
          IF platform = "linux" THEN CachedLinux
          ELSE IF platform = "win32" THEN CachedWin32 ELSE "False"]
    /\ UNCHANGED <<probe_local, probeFrame, calls, linux_prctl, win32_job,
                   win32_AssignProcessToJobObject, job_flags, probes, jobs_created>>
    /\ UNCHANGED <<sigVars, kvVars>>

ProbeStep(p) ==
    \/ ProbeCall(p)
    \/ ProbeTest(p)
    \/ ProbeLoad(p)
    \/ ProbeCreate(p)
    \/ ProbeConfigure(p)
    \/ ProbeStoreAssign(p)
    \/ ProbeStore(p)
    \/ ProbeReturn(p)

ProbeNext == \E p \in Probers : ProbeStep(p)

\* ------------------------------------------------- internal KV with retry

MaxRetries == 3

\* what a call of the store can return: None, a value that is not None but
\* false (b"" for a key, [] for a prefix, 0 for a put), a value that is true
KvValues == {"None", "empty", "value"}

\* what a call of the store can raise: ray.exceptions.RpcError with rpc_code
\* GRPC_STATUS_CODE_UNAVAILABLE or UNKNOWN, RpcError with another code, an
\* exception of another class; at is the attempt that raised it
NoError == <<"None", "", 0>>
KvErrors(at) == {<<"RpcError", "UNAVAILABLE", at>>, <<"RpcError", "OTHER", at>>,
                 <<"ValueError", "", at>>}

\* the answers of the store to the attempt numbered at
KvReplies(at) ==
    {[raised |-> NoError, value |-> v] : v \in KvValues}
    \cup {[raised |-> e, value |-> "None"] : e \in KvErrors(at)}

NoOutcome == [kind |-> "none", value |-> "None", error |-> NoError]
Returned(v) == [kind |-> "returned", value |-> v, error |-> NoError]
Raised(e) == [kind |-> "raised", value |-> "None", error |-> e]

ConnectionError == <<"ConnectionError", "", 0>>
\* what `raise None` raises
TypeError == <<"TypeError", "", 0>>

\* bool(v)
truthy(v) == v = "value"

\* internal_kv_get_with_retry past its loop:
\*   if not result: raise ConnectionError(...)
\*   return result
internal_kv_get_with_retry_end(result) ==
    IF ~truthy(result) THEN Raised(ConnectionError) ELSE Returned(result)

\* internal_kv_list_with_retry past its loop:
\*   if result is None: raise ConnectionError(...)
\*   return result
internal_kv_list_with_retry_end(result) ==
    IF result = "None" THEN Raised(ConnectionError) ELSE Returned(result)

\* internal_kv_put_with_retry past its loop: raise error
internal_kv_put_with_retry_end(error) ==
    IF error = NoError THEN Raised(TypeError) ELSE Raised(error)

\* a client calls internal_kv_get_with_retry, internal_kv_list_with_retry or
\* internal_kv_put_with_retry with num_retries = n: result = None, error = None
KvCall(fn, n) ==
    /\ kv_pc \in {"idle", "done"}
    /\ kv_fn' = fn
    /\ kv_num_retries' = n
    /\ kv_pc' = "loop"
    /\ kv_i' = 0
    /\ kv_result' = "None"
    /\ kv_error' = NoError
    /\ kv_outcome' = NoOutcome
    /\ kv_replies' = <<>>
    /\ kv_sleeps' = 0
    /\ UNCHANGED <<sigVars, fateVars, probeVars>>

\* one iteration of the loop of get and list: the store is called; what it
\* raises (any Exception) is logged and makes result None; a result that is
\* not None ends the loop, None is followed by time.sleep(2)
KvFetchAttempt(reply) ==
    /\ kv_pc = "loop" /\ kv_fn \in {"get", "list"}
    /\ kv_i < kv_num_retries
    /\ kv_i' = kv_i + 1
    /\ kv_replies' = Append(kv_replies, reply)
    /\ LET result == IF reply.raised # NoError THEN "None" ELSE reply.value
       IN  /\ kv_result' = result
           /\ IF result # "None"
              THEN /\ kv_pc' = "after"
                   /\ UNCHANGED kv_sleeps
              ELSE /\ kv_pc' = "loop"
                   /\ kv_sleeps' = kv_sleeps + 1
    /\ UNCHANGED <<kv_fn, kv_num_retries, kv_error, kv_outcome>>
    /\ UNCHANGED <<sigVars, fateVars, probeVars>>

\* one iteration of the loop of put: what the store returns is returned at
\* once; an RpcError is logged, followed by time.sleep(2) and kept in error;
\* an exception of another class is not caught
KvPutAttempt(reply) ==
    /\ kv_pc = "loop" /\ kv_fn = "put"
    /\ kv_i < kv_num_retries
    /\ kv_i' = kv_i + 1
    /\ kv_replies' = Append(kv_replies, reply)
    /\ IF reply.raised = NoError
       THEN /\ kv_outcome' = Returned(reply.value)
            /\ kv_pc' = "done"
            /\ UNCHANGED <<kv_error, kv_sleeps>>
       ELSE IF reply.raised[1] = "RpcError"
       THEN /\ kv_error' = reply.raised
            /\ kv_sleeps' = kv_sleeps + 1
            /\ kv_pc' = "loop"
            /\ UNCHANGED kv_outcome
       ELSE /\ kv_outcome' = Raised(reply.raised)
            /\ kv_pc' = "done"
            /\ UNCHANGED <<kv_error, kv_sleeps>>
    /\ UNCHANGED <<kv_fn, kv_num_retries, kv_result>>
    /\ UNCHANGED <<sigVars, fateVars, probeVars>>

\* `for _ in range(num_retries)` has no iteration left
KvExhausted ==
    /\ kv_pc = "loop"
    /\ kv_i >= kv_num_retries
    /\ kv_pc' = "after"
    /\ UNCHANGED <<kv_fn, kv_num_retries, kv_i, kv_result, kv_error, kv_outcome,
                   kv_replies, kv_sleeps>>
    /\ UNCHANGED <<sigVars, fateVars, probeVars>>

\* the statements after the loop
KvEnd ==
    /\ kv_pc = "after"
    /\ kv_pc' = "done"
    /\ kv_outcome' = CASE kv_fn = "get"  -> internal_kv_get_with_retry_end(kv_result)
                       [] kv_fn = "list" -> internal_kv_list_with_retry_end(kv_result)
                       [] OTHER          -> internal_kv_put_with_retry_end(kv_error)
    /\ UNCHANGED <<kv_fn, kv_num_retries, kv_i, kv_result, kv_error, kv_replies,
                   kv_sleeps>>
    /\ UNCHANGED <<sigVars, fateVars, probeVars>>

\* no helper called
KvIdle ==
    /\ kv_fn = "none"
    /\ kv_num_retries = 0
    /\ kv_pc = "idle"
    /\ kv_i = 0
    /\ kv_result = "None"
    /\ kv_error = NoError
    /\ kv_outcome = NoOutcome
    /\ kv_replies = <<>>
    /\ kv_sleeps = 0

KvNext ==
    \/ \E fn \in {"get", "list", "put"}, n \in 0..MaxRetries : KvCall(fn, n)
    \/ \E reply \in KvReplies(kv_i + 1) : KvFetchAttempt(reply)
    \/ \E reply \in KvReplies(kv_i + 1) : KvPutAttempt(reply)
    \/ KvExhausted
    \/ KvEnd

\* the signal part at rest
SigIdle == SigInit /\ handlers["SIGINT"] = default_int_handler

\* a host on which the helpers are used, no DeferSigint in play
FateStart == FateInit /\ SigIdle /\ ProbeIdle /\ KvIdle

FateSpec == FateStart /\ [][FateNext]_vars

\* threads calling the probes concurrently
ProbeSpec == FateStart /\ [][ProbeNext]_vars

\* the kernel does clean up after a process that exited
FateLiveSpec == FateSpec /\ WF_vars(KernelCleanup)

\* the main thread alone, with SIGINT arriving at any point
MainNext == Step("main") \/ Deliver

\* the main thread running one guarded scope after another, without nesting and
\* without registering handlers, beside a worker thread that does anything
MainScope ==
    \/ (pc["main"] = "idle" /\ BeginFactory("main"))
    \/ EnterGetsignal("main")
    \/ EnterInstall("main")
    \/ EnterSave("main")
    \/ EnterPatch("main")
    \/ BodyReturn("main")
    \/ BodyRaise("main")
    \/ ExitAssert("main")
    \/ ExitUnpatch("main")
    \/ ExitRestore("main")
    \/ ExitCheck("main")

ThreadNext == MainScope \/ Step("worker") \/ Deliver

\* the main thread alone, whose client code calls signal.signal only in the
\* bodies of its with statements
ScopedNext ==
    \/ BeginFactory("main")
    \/ BeginDirect("main")
    \/ EnterGetsignal("main")
    \/ EnterInstall("main")
    \/ EnterSave("main")
    \/ EnterPatch("main")
    \/ \E s \in Signals, h \in Installable :
          pc["main"] = "body" /\ Register("main", s, h)
    \/ BodyCatch("main")
    \/ BodyReturn("main")
    \/ BodyRaise("main")
    \/ BodyPropagate("main")
    \/ ExitAssert("main")
    \/ ExitUnpatch("main")
    \/ ExitRestore("main")
    \/ ExitCheck("main")
    \/ Deliver

\* a process in which DeferSigint is used, the helpers unused
SigStart == SigInit /\ FateIdle /\ ProbeIdle /\ KvIdle

\* the main thread alone in a process that may have a foreign SIGINT handler
ForeignStart == ForeignInit /\ FateIdle /\ ProbeIdle /\ KvIdle

ForeignSpec == ForeignStart /\ [][MainNext]_vars

\* the main thread alone, using an instance for more than one with statement
ReuseNext == MainNext \/ Reenter("main")

ReuseSpec == SigStart /\ [][ReuseNext]_vars

\* a client of the store, nothing else in play
KvStart == KvIdle /\ SigIdle /\ FateIdle /\ ProbeIdle

KvSpec == KvStart /\ [][KvNext]_vars

ScopedSpec == SigStart /\ [][ScopedNext]_vars

MainSpec == SigStart /\ [][MainNext]_vars
ThreadSpec == SigStart /\ [][ThreadNext]_vars

\* ================================================================== claims

\* the statuses of a scope whose __exit__ ran to its end
ExitEnded == {"exit_returned_False", "exit_raised_KeyboardInterrupt",
              "exit_raised_AssertionError", "exit_raised_TypeError",
              "exit_raised_ValueError"}

\* C1 Deferred delivery: a scope whose handler recorded one SIGINT and whose body
\* completed normally ends with __exit__ raising KeyboardInterrupt; and as long as
\* the scope is in its body no KeyboardInterrupt is in flight in it: the only
\* raise is the one at the end of __exit__, after the body.
C1_DeferredDelivery ==
    \A g \in Guards :
        /\ (status[g] \in ExitEnded /\ exc_type[g] = "None" /\ deferred[g] = 1)
               => status[g] = "exit_raised_KeyboardInterrupt"
        /\ (status[g] = "body" /\ InScope("main") /\ Top("main") = Guard(g))
               => pendingExc["main"] # "KeyboardInterrupt"

C1_Witness ==
    \E g \in Guards :
        /\ status[g] = "exit_raised_KeyboardInterrupt"
        /\ deferred[g] = 1
        /\ exc_type[g] = "None"
        /\ delivered = 1

\* C2 Exception precedence: a scope whose body raised a failure ends with
\* __exit__ returning False, so that the failure goes on, whether or not a SIGINT
\* was recorded; __exit__ raises nothing instead.
C2_ExceptionPrecedence ==
    \A g \in Guards :
        (status[g] \in ExitEnded /\ exc_type[g] # "None")
            => status[g] = "exit_returned_False"

C2_Witness ==
    \E g \in Guards :
        /\ status[g] = "exit_returned_False"
        /\ exc_type[g] = "Failure"
        /\ deferred[g] >= 1
        /\ task_cancelled[g]

\* C3 Guard restores original state: the step that ends the __exit__ of a scope
\* which recorded no SIGINT and whose body completed leaves SIGINT's handler the
\* one that was installed when the with statement began, whichever installable
\* handler that was, and raises no KeyboardInterrupt.
C3_RestoresHandler ==
    [][\A g \in Guards :
          (ExitCheck("main") /\ Top("main") = Guard(g) /\ deferred[g] = 0
              /\ exc_type[g] = "None")
          => /\ entryHandler[g] \in Installable
             /\ handlers'["SIGINT"] = entryHandler[g]
             /\ status'[g] = "exit_returned_False"
             /\ pendingExc'["main"] = "None"]_vars

C3_Witness ==
    \E g \in Guards :
        /\ status[g] = "exit_returned_False"
        /\ deferred[g] = 0
        /\ delivered = 0
        /\ exc_type[g] = "None"
        /\ entryHandler[g] = user_handler
        /\ handlers["SIGINT"] = user_handler

\* C4 Competing-handler rejection: while signal.signal is a guard's patch, a call
\* signal.signal(SIGINT, h) on the main thread raises ValueError to its caller in
\* that step and changes neither the handlers nor any task_cancelled nor
\* signal.signal; and the scope's __exit__ still puts back the handler and the
\* signal.signal that were there when the with statement began.
C4_CompetingHandlerRejected ==
    [][\A g \in Guards :
          /\ \A h \in Installable :
                (Register("main", "SIGINT", h) /\ signal_signal = Patch(g))
                => /\ pendingExc'["main"] = "ValueError"
                   /\ rejected'[g] = rejected[g] + 1
                   /\ handlers' = handlers
                   /\ handlers["SIGINT"] = Defer(g)
                   /\ task_cancelled' = task_cancelled
                   /\ signal_signal' = signal_signal
          /\ (pc["main"] \in ExitPcs /\ Top("main") = Guard(g) /\ rejected[g] > 0
                /\ Len(stack'["main"]) < Len(stack["main"]))
                => /\ handlers'["SIGINT"] = entryHandler[g]
                   /\ signal_signal' = entrySignal[g]]_vars

C4_Witness ==
    \E g \in Guards :
        /\ rejected[g] > 0
        /\ status[g] \in {"exit_returned_False", "exit_raised_KeyboardInterrupt"}
        /\ handlers["SIGINT"] = entryHandler[g]
        /\ signal_signal = RealSignal
        /\ entrySignal[g] = RealSignal

\* C5 At most one guard is active on a thread: a DeferSigint entered in the body
\* of an active one is rejected when its __enter__ installs its handler (it
\* raises ValueError), and its __enter__ changes neither the handlers,
\* signal.signal, nor the first guard's task_cancelled, orig_sigint_handler,
\* orig_signal and status.
C5_AtMostOneActive ==
    [][/\ Cardinality({g \in Guards : status'[g] \in {"body", "exiting"}}) <= 1
       /\ \A o, i \in Guards :
            (/\ Len(stack["main"]) = 2
             /\ stack["main"] = <<Guard(o), Guard(i)>>
             /\ status[o] = "body"
             /\ (EnterGetsignal("main") \/ EnterInstall("main")))
            => /\ handlers' = handlers /\ handlers["SIGINT"] = Defer(o)
               /\ signal_signal' = signal_signal /\ signal_signal = Patch(o)
               /\ task_cancelled'[o] = task_cancelled[o]
               /\ orig_sigint_handler'[o] = orig_sigint_handler[o]
               /\ orig_signal'[o] = orig_signal[o]
               /\ status'[o] = "body"
               /\ (pc["main"] = "enter_install"
                      => /\ status'[i] = "enter_raised_ValueError"
                         /\ pendingExc'["main"] = "ValueError"
                         /\ stack'["main"] = <<Guard(o)>>)]_vars

C5_Witness ==
    \E o, i \in Guards :
        /\ status[o] = "body"
        /\ status[i] = "enter_raised_ValueError"
        /\ stack["main"] = <<Guard(o)>>
        /\ pendingExc["main"] = "ValueError"
        /\ handlers["SIGINT"] = Defer(o)
        /\ signal_signal = Patch(o)

\* C6 as stated: every scope whose handler recorded a SIGINT and whose __exit__
\* ended has surfaced it as KeyboardInterrupt.
C6_NeverLost ==
    \A g \in Guards :
        (status[g] \in ExitEnded /\ deferred[g] >= 1)
            => status[g] = "exit_raised_KeyboardInterrupt"

\* C6 amended: a scope whose handler recorded a SIGINT surfaces it as
\* KeyboardInterrupt at the end of __exit__ exactly when its body completed
\* normally; when the body raised, __exit__ returns False, the body's failure
\* goes on, and the recorded SIGINT stays in task_cancelled, never raised.
C6_SurfacedUnlessBodyRaised ==
    \A g \in Guards :
        (status[g] \in ExitEnded /\ deferred[g] >= 1)
            => /\ task_cancelled[g]
               /\ (exc_type[g] = "None" <=> status[g] = "exit_raised_KeyboardInterrupt")
               /\ (exc_type[g] # "None" <=> status[g] = "exit_returned_False")

C6_Witness ==
    \E g \in Guards :
        /\ status[g] = "exit_raised_KeyboardInterrupt"
        /\ deferred[g] = MaxDeliveries
        /\ stack["main"] = <<>>

\* C7 Off the main thread the guard is a pass-through: what
\* create_if_main_thread() returns on a worker thread is a nullcontext, entering
\* it raises nothing and constructs no DeferSigint, leaving it passes on exactly
\* what the body ended with; and no step of a worker thread changes the
\* handlers, signal.signal or any task_cancelled, or puts a KeyboardInterrupt in
\* flight on the worker.
C7_WorkerPassThrough ==
    [][/\ Step("worker")
          => /\ handlers' = handlers
             /\ signal_signal' = signal_signal
             /\ task_cancelled' = task_cancelled
             /\ pendingExc'["worker"] # "KeyboardInterrupt"
       /\ BeginFactory("worker")
          => /\ stack'["worker"] = Append(stack["worker"], NullCtx)
             /\ pc'["worker"] = "body"
             /\ pendingExc'["worker"] = "None"
             /\ status' = status
             /\ orig_sigint_handler' = orig_sigint_handler
             /\ orig_signal' = orig_signal
       /\ \A e \in {"None", "Failure", "ValueError", "TypeError"} :
            (/\ InScope("worker") /\ Top("worker") = NullCtx
             /\ Len(stack'["worker"]) < Len(stack["worker"])
             /\ e = (IF pendingExc["worker"] # "None" THEN pendingExc["worker"]
                     ELSE IF BodyRaise("worker") THEN "Failure" ELSE "None"))
            => /\ stack'["worker"] = Pop("worker")
               /\ pendingExc'["worker"] = IF Len(stack["worker"]) > 1 THEN e ELSE "None"
               /\ status' = status]_vars

C7_Witness ==
    /\ created = 2
    /\ status[1] = "body" /\ signal_signal = Patch(1) /\ handlers["SIGINT"] = Defer(1)
    /\ status[2] = "unused"
    /\ stack["worker"] = <<>> /\ pc["worker"] = "idle"
    /\ deferred[1] = 1

\* C8 Restoration on every exit path: every step that ends a scope's __exit__,
\* by return or by raise, leaves SIGINT's handler and signal.signal the ones
\* that were there when the with statement began.
C8_RestoredOnEveryPath ==
    [][\A g \in Guards :
          (/\ InScope("main") /\ Top("main") = Guard(g)
           /\ pc["main"] \in ExitPcs
           /\ Len(stack'["main"]) < Len(stack["main"]))
          => /\ handlers'["SIGINT"] = entryHandler[g]
             /\ signal_signal' = entrySignal[g]
             /\ status'[g] \in {"exit_returned_False", "exit_raised_KeyboardInterrupt",
                                "exit_interrupted"}]_vars

C8_Witness ==
    /\ status[1] = "exit_raised_KeyboardInterrupt"
    /\ status[2] = "exit_returned_False"
    /\ exc_type[2] = "Failure"
    /\ deferred[2] >= 1
    /\ handlers["SIGINT"] = entryHandler[2]
    /\ entryHandler[1] = entryHandler[2]
    /\ signal_signal = RealSignal

\* C9 as stated: a child that was bound when its parent terminated is dead once
\* the kernel has cleaned up after the parent.
C9_BoundChildDies ==
    (parent = "reaped" /\ bound_at_exit) => child = "dead"

\* C9 amended: a child bound when its parent terminated is eventually
\* terminated, unless it was bound on Windows to a job object that the probe
\* configured while a debugger was attached (IsDebuggerPresent), which carries
\* no KILL_ON_JOB_CLOSE.
C9_BoundChildDiesUnlessDebugged ==
    (parent = "exited" /\ bound_at_exit /\ ~(platform = "win32" /\ os_facts.debugger))
        ~> (child = "dead")

C9_Witness ==
    /\ parent = "reaped"
    /\ bound_at_exit
    /\ child = "dead"
    /\ "child" \in job_members
    /\ job_flags = LimitFlags(FALSE)

\* the two bind functions
Binds == {"set_kill_on_parent_death_linux", "set_kill_child_on_death_win32"}

\* C10 Bind without capability: a call of a bind function in which the
\* capability detection answers False ends with AssertionError, and calls no OS
\* primitive: prctl and AssignProcessToJobObject are not called, the child's
\* parent-death signal and the job's members stay as they were.
C10_BindWithoutCapability ==
    [][(calls' = calls + 1 /\ last_call'.fn \in Binds /\ last_call'.detected = "False")
          => /\ last_call'.raised = "AssertionError"
             /\ ~last_call'.primitive
             /\ prim_calls' = prim_calls
             /\ pdeathsig' = pdeathsig
             /\ job_members' = job_members]_vars

C10_Witness ==
    /\ last_call.fn = "set_kill_on_parent_death_linux"
    /\ last_call.detected = "False"
    /\ last_call.raised = "AssertionError"
    /\ linux_prctl = "False"
    /\ pdeathsig = "none"
    /\ prim_calls = 0

\* C11 Bind failure carries the OS error code: a bind call in which the OS
\* primitive was called and reported an error ends with OSError, and the
\* OSError's errno is the code the OS left for that failed call.
C11_OSErrorCarriesCode ==
    (last_call.fn \in Binds /\ last_call.primitive /\ last_call.raised = "OSError")
        => last_call.errno = os_errno

\* the calls that run the Linux probe, and those that run the Windows probe
LinuxCalls == {"detect_fate_sharing_support_linux", "set_kill_on_parent_death_linux"}
Win32Calls == {"detect_fate_sharing_support_win32", "set_kill_child_on_death_win32"}

\* C12 The cached capability is written once: in any sequence of detect and
\* bind calls, linux_prctl and win32_job (with win32_AssignProcessToJobObject
\* and the job's flags) change only from None, only to False or to the
\* primitive, and never change afterwards; and a call that runs a probe on its
\* own platform and ends without an exception from the probe leaves the state
\* decided.
C12_CacheWrittenOnce ==
    [][/\ linux_prctl # "None" => linux_prctl' = linux_prctl
       /\ win32_job # "None"
            => /\ win32_job' = win32_job
               /\ win32_AssignProcessToJobObject' = win32_AssignProcessToJobObject
               /\ job_flags' = job_flags
       /\ linux_prctl' # linux_prctl => linux_prctl' \in {"False", "prctl"}
       /\ win32_job' # win32_job => win32_job' \in {"False", "job"}
       /\ (calls' = calls + 1 /\ last_call'.detected \in {"True", "False"})
            => /\ (platform = "linux" /\ last_call'.fn \in LinuxCalls)
                    => linux_prctl' = (IF last_call'.detected = "True" THEN "prctl"
                                                                      ELSE "False")
               /\ (platform = "win32" /\ last_call'.fn \in Win32Calls)
                    => win32_job' = (IF last_call'.detected = "True" THEN "job"
                                                                    ELSE "False")]_vars

C12_Witness ==
    /\ calls = MaxCalls
    /\ probes = 1
    /\ platform = "linux"
    /\ linux_prctl = "False"
    /\ last_call.fn = "set_kill_on_parent_death_linux"
    /\ last_call.detected = "False"

\* C13 Detection is idempotent: in a sequence of calls, once a probe has
\* answered (the cache is False or the primitive), every later call of that
\* probe returns that same boolean and performs no OS probe; an OS probe is
\* performed only while the cache is still None; so on a host whose library
\* load does not raise OSError at most one OS probe is performed and at most
\* one job object created, whether it found the capability or not.
C13_DetectIdempotent ==
    /\ [][/\ (calls' = calls + 1 /\ last_call'.fn = "detect_fate_sharing_support_linux"
               /\ (linux_prctl # "None" \/ platform # "linux"))
              => /\ last_call'.detected = CachedLinux
                 /\ probes' = probes
          /\ (calls' = calls + 1 /\ last_call'.fn = "detect_fate_sharing_support_win32"
               /\ (win32_job # "None" \/ platform # "win32"))
              => /\ last_call'.detected = CachedWin32
                 /\ probes' = probes /\ jobs_created' = jobs_created
          /\ probes' # probes
              => /\ probes' = probes + 1
                 /\ linux_prctl = "None" /\ win32_job = "None"]_vars
    /\ []((os_facts.libc # "OSError" /\ os_facts.kernel32 # "OSError")
             => (probes <= 1 /\ jobs_created <= 1))

C13_Witness ==
    /\ calls = MaxCalls
    /\ probes = 1
    /\ jobs_created = 1
    /\ win32_job = "False"
    /\ last_call.fn = "detect_fate_sharing_support_win32"
    /\ last_call.detected = "False"

\* C14 Concurrent first-time probes converge: whatever the interleaving of the
\* threads' probe calls, at most one job object is created, and any two calls
\* that returned returned the same boolean.
C14_ConcurrentProbesConverge ==
    /\ jobs_created <= 1
    /\ \A p, q \in Probers :
          (probe_ret[p] \in {"True", "False"} /\ probe_ret[q] \in {"True", "False"})
              => probe_ret[p] = probe_ret[q]

\* the Windows probe fails on this host: kernel32 and its functions cannot be
\* set up, the job object cannot be created, or it cannot be configured
Win32ProbeFails ==
    \/ os_facts.kernel32 # "ok"
    \/ ~os_facts.create_job
    \/ ~os_facts.set_information

\* C15 Windows probe failure handling: after a call of
\* detect_fate_sharing_support_win32 on a Windows host where loading, creating
\* or configuring fails, the call has returned False, win32_job is False and
\* no job is kept.
C15_Win32FailureUnsupported ==
    (platform = "win32" /\ last_call.fn = "detect_fate_sharing_support_win32"
        /\ Win32ProbeFails)
    => /\ last_call.detected = "False"
       /\ last_call.raised = "None"
       /\ win32_job = "False"
       /\ job_flags = {}

\* C16 Windows job flags: the flags of the job the probe configured always hold
\* DIE_ON_UNHANDLED_EXCEPTION and BREAKAWAY_OK, and hold KILL_ON_JOB_CLOSE
\* exactly when no debugger was attached at probe time.
C16_JobFlags ==
    win32_job = "job"
    => /\ DIE_ON_UNHANDLED_EXCEPTION \in job_flags
       /\ BREAKAWAY_OK \in job_flags
       /\ KILL_ON_JOB_CLOSE \in job_flags <=> ~os_facts.debugger
       /\ job_flags \subseteq {KILL_ON_JOB_CLOSE, DIE_ON_UNHANDLED_EXCEPTION, BREAKAWAY_OK}

C16_Witness ==
    /\ win32_job = "job"
    /\ os_facts.debugger
    /\ job_flags = {DIE_ON_UNHANDLED_EXCEPTION, BREAKAWAY_OK}
    /\ last_call.fn = "detect_fate_sharing_support_win32"
    /\ last_call.detected = "True"

\* the three detect functions
Detects == {"detect_fate_sharing_support", "detect_fate_sharing_support_linux",
            "detect_fate_sharing_support_win32"}

\* C17 Detection failures are never fatal: no call of a detect function ends
\* with an exception.
C17_DetectNeverRaises ==
    last_call.fn \in Detects => last_call.raised = "None"

\* C18 detect_fate_sharing_support() returns a boolean on every platform: a
\* call that returned returned True or False, and False on a platform that has
\* no probe.
C18_DetectReturnsBool ==
    (last_call.fn = "detect_fate_sharing_support" /\ last_call.raised = "None")
    => /\ last_call.detected \in {"True", "False"}
       /\ platform \notin {"linux", "win32"} => last_call.detected = "False"

\* C19 as stated: after set_kill_child_on_death_win32 returned normally the
\* child is a member of the job, and a member of the job is dead once the
\* kernel has cleaned up after the parent, whatever the job's configuration.
C19_JobMembersDie ==
    /\ (last_call.fn = "set_kill_child_on_death_win32" /\ last_call.raised = "None")
          => "child" \in job_members
    /\ (parent = "reaped" /\ bound_at_exit /\ "child" \in job_members)
          => child = "dead"

\* C19 amended: a call of set_kill_child_on_death_win32 that returns normally
\* has made the child a member of the job kept in win32_job; and when the
\* parent has exited and the kernel has closed the job's handle, a member is
\* terminated exactly if no debugger was attached when the probe configured
\* the job (the job then has KILL_ON_JOB_CLOSE); with a debugger attached the
\* member keeps running.
C19_JobMembersDieUnlessDebugged ==
    /\ [][(calls' = calls + 1 /\ last_call'.fn = "set_kill_child_on_death_win32"
               /\ last_call'.raised = "None")
            => /\ "child" \in job_members'
               /\ win32_job' = "job"
               /\ prim_calls' = prim_calls + 1]_vars
    /\ []((parent = "reaped" /\ bound_at_exit /\ "child" \in job_members)
            => /\ child = "dead" <=> ~os_facts.debugger
               /\ child = "running" <=> os_facts.debugger)

C19_Witness ==
    /\ last_call.fn = "set_kill_child_on_death_win32"
    /\ last_call.raised = "None"
    /\ "child" \in job_members
    /\ KILL_ON_JOB_CLOSE \in job_flags
    /\ parent = "reaped"
    /\ child = "dead"

\* C20 The deferred signal concerns the guard's thread only: with guards
\* active on the main thread, no step of another thread puts a
\* KeyboardInterrupt in flight on it, no guard rejects a registration another
\* thread attempts (a registration made off the main thread ends as
\* signal.signal itself ends it there), and a delivery of SIGINT and the main
\* thread's steps leave the other thread's stack, position and exception in
\* flight as they were.
C20_OnlyOwnerObserves ==
    [][/\ Step("worker")
          => /\ rejected' = rejected
             /\ pendingExc'["worker"] # "KeyboardInterrupt"
       /\ \A sg \in Signals, h \in Installable :
            Register("worker", sg, h)
            => /\ pendingExc'["worker"] =
                     IF InScope("worker") THEN signal_builtin("worker", sg, h).raised
                                          ELSE "None"
               /\ handlers' = signal_builtin("worker", sg, h).table
       /\ (Deliver \/ MainScope)
          => /\ stack'["worker"] = stack["worker"]
             /\ pc'["worker"] = pc["worker"]
             /\ pendingExc'["worker"] = pendingExc["worker"]]_vars

C20_Witness ==
    \E g \in Guards :
        /\ status[g] = "exit_raised_KeyboardInterrupt"
        /\ deferred[g] >= 1
        /\ rejected[g] = 0
        /\ regs = 1
        /\ stack["worker"] = <<NullCtx>>
        /\ pendingExc["worker"] = "ValueError"

\* C21 Signals other than the guarded one are independent of an active guard:
\* while a guard's patch is the registration entry point, a registration for
\* SIGTERM made on the main thread ends as the call of the guard's saved
\* orig_signal ends: it raises nothing, installs the handler, returns the
\* handler SIGTERM had before, and leaves every guard's task_cancelled, the
\* handler installed for SIGINT and the count of rejections as they were.
C21_OtherSignalsPassThrough ==
    [][\A h \in Installable :
         (Register("main", "SIGTERM", h) /\ signal_signal[1] = "_signal_monkey_patch")
         => LET g == signal_signal[2]
            IN  /\ CallSignal(signal_signal, "main", "SIGTERM", h)
                      = CallSignal(orig_signal[g], "main", "SIGTERM", h)
                /\ handlers'["SIGTERM"] = h
                /\ CallSignal(signal_signal, "main", "SIGTERM", h).returned
                      = handlers["SIGTERM"]
                /\ pendingExc'["main"] = "None"
                /\ task_cancelled' = task_cancelled
                /\ handlers'["SIGINT"] = handlers["SIGINT"]
                /\ rejected' = rejected]_vars

C21_Witness ==
    \E g \in Guards :
        /\ regs = 1
        /\ signal_signal = Patch(g)
        /\ handlers["SIGTERM"] = user_handler
        /\ handlers["SIGINT"] = Defer(g)
        /\ status[g] = "body"

\* C22 A capability probe that fails warns: a helper call in which a probe is
\* performed and finds no support (it answers False, or the probe's error ends
\* the call) has given at least one warning to the module's logger.
C22_ProbeFailureWarns ==
    [][(calls' = calls + 1 /\ probes' = probes + 1
            /\ last_call'.detected \in {"False", "raised"})
        => last_call'.warnings >= 1]_vars

\* C23 Exit ordering: __exit__ puts signal.signal back first, while the guard's
\* handler is still installed, and re-installs the original handler after it;
\* so the re-installing call goes through the saved orig_signal, which is the
\* signal.signal the with statement began with and not the guard's patch, no
\* guard rejects it, and it leaves SIGINT with the saved handler.
C23_UnpatchBeforeRestore ==
    [][\A g \in Guards :
          /\ (ExitUnpatch("main") /\ Top("main") = Guard(g))
                => /\ signal_signal = Patch(g)
                   /\ signal_signal' = entrySignal[g]
                   /\ handlers["SIGINT"] = Defer(g)
                   /\ handlers' = handlers
                   /\ pc'["main"] = "exit_restore"
          /\ (ExitRestore("main") /\ Top("main") = Guard(g))
                => /\ signal_signal = orig_signal[g]
                   /\ signal_signal = entrySignal[g]
                   /\ signal_signal # Patch(g)
                   /\ CallSignal(signal_signal, "main", "SIGINT",
                                 orig_sigint_handler[g]).by # "guard"
                   /\ rejected' = rejected
                   /\ handlers["SIGINT"] = Defer(g)
                   /\ handlers'["SIGINT"] = orig_sigint_handler[g]
                   /\ pc'["main"] = "exit_check"]_vars

C23_Witness ==
    \E g \in Guards :
        /\ InGuard("main") /\ Top("main") = Guard(g)
        /\ pc["main"] = "exit_check"
        /\ signal_signal = RealSignal
        /\ orig_sigint_handler[g] = user_handler
        /\ handlers["SIGINT"] = user_handler
        /\ rejected[g] = 0
        /\ deferred[g] >= 1

\* C24 A guard's handler only records: a delivery of SIGINT while a guard's
\* _set_task_cancelled is installed sets that guard's task_cancelled and, but
\* for the count of deliveries, nothing else: nothing is raised, the process
\* lives, the main thread stays where it is, the handlers and signal.signal
\* stay. However many deliveries a scope recorded, when its body completed
\* its __exit__ raises KeyboardInterrupt, once: the scope is over.
C24_HandlerOnlyRecords ==
    /\ [][\A g \in Guards :
             (Deliver /\ handlers["SIGINT"] = Defer(g))
             => /\ task_cancelled' = [task_cancelled EXCEPT ![g] = TRUE]
                /\ deferred'[g] = deferred[g] + 1
                /\ UNCHANGED <<handlers, signal_signal, orig_sigint_handler,
                               orig_signal, status, exc_type, stack, pc,
                               pendingExc, alive>>]_vars
    /\ [][\A g \in Guards :
             (ExitCheck("main") /\ Top("main") = Guard(g) /\ deferred[g] >= 1
                 /\ exc_type[g] = "None")
             => /\ status'[g] = "exit_raised_KeyboardInterrupt"
                /\ stack'["main"] = Pop("main")]_vars
    /\ [](\A g \in Guards :
             (status[g] \in ExitEnded /\ exc_type[g] = "None"
                 /\ deferred[g] \in 1..MaxDeliveries)
             => /\ status[g] = "exit_raised_KeyboardInterrupt"
                /\ \A i \in 1..Len(stack["main"]) : stack["main"][i] # Guard(g))

C24_Witness ==
    \E g \in Guards :
        /\ status[g] = "exit_raised_KeyboardInterrupt"
        /\ exc_type[g] = "None"
        /\ deferred[g] = 2
        /\ delivered = 2
        /\ stack["main"] = <<>>
        /\ pendingExc["main"] = "None"

\* C25 A scope raises KeyboardInterrupt at its exit only for a SIGINT of its
\* own: the __exit__ of a scope in which no SIGINT was recorded and whose body
\* completed returns False and raises nothing, also when the instance was used
\* for an earlier with statement in which a SIGINT was recorded; and an
\* __exit__ that raises KeyboardInterrupt ends a scope that recorded one.
C25_NoDeliveryNoRaise ==
    [][\A g \in Guards :
          (ExitCheck("main") /\ Top("main") = Guard(g))
          => /\ (deferred[g] = 0 /\ exc_type[g] = "None")
                   => /\ status'[g] = "exit_returned_False"
                      /\ pendingExc'["main"] = "None"
             /\ status'[g] = "exit_raised_KeyboardInterrupt" => deferred[g] >= 1]_vars

\* C26 The assertions of __exit__ hold: whenever __exit__ runs for a scope
\* whose __enter__ returned, self.orig_sigint_handler and self.orig_signal are
\* not None, whatever handler signal.getsignal reported at entry, so __exit__
\* goes on to put signal.signal back.
C26_ExitAssertionsHold ==
    [][\A g \in Guards :
          (ExitAssert("main") /\ Top("main") = Guard(g))
          => /\ orig_sigint_handler[g] # None
             /\ orig_signal[g] # None
             /\ pc'["main"] = "exit_unpatch"
             /\ status'[g] # "exit_raised_AssertionError"]_vars

\* C27 Interception is limited to the guard's dynamic extent. A SIGINT that
\* arrives in a guard's scope before __enter__ has installed the guard's
\* handler, or after __exit__ has re-installed the original one, meets the
\* handler H that was installed when the with statement began and leaves the
\* guard's task_cancelled alone. A SIGINT that arrives in between (in the rest
\* of __enter__, in the body, in __exit__ up to the re-installation) meets the
\* guard's handler: task_cancelled becomes true, and what H would have done
\* does not happen (the process lives, nothing is raised, the main thread
\* stays where it is).
C27_InterceptedOnlyInScope ==
    [][\A g \in Guards :
          /\ (Deliver /\ InGuard("main") /\ Top("main") = Guard(g)
                 /\ pc["main"] \in {"enter_getsignal", "enter_install", "exit_check"})
                => /\ handlers["SIGINT"] = entryHandler[g]
                   /\ handlers["SIGINT"] # Defer(g)
                   /\ task_cancelled'[g] = task_cancelled[g]
                   /\ deferred'[g] = deferred[g]
                   /\ (entryHandler[g] = SIG_DFL => ~alive')
                   /\ (entryHandler[g] = default_int_handler
                          => /\ status'[g] \in {"enter_interrupted", "exit_interrupted"}
                             /\ stack'["main"] = Pop("main"))
          /\ (Deliver /\ (\/ status[g] = "body"
                          \/ /\ InGuard("main") /\ Top("main") = Guard(g)
                             /\ pc["main"] \in {"enter_save", "enter_patch", "exit_assert",
                                                "exit_unpatch", "exit_restore"}))
                => /\ handlers["SIGINT"] = Defer(g)
                   /\ task_cancelled'[g]
                   /\ deferred'[g] = deferred[g] + 1
                   /\ UNCHANGED <<alive, pendingExc, pc, stack, status>>]_vars

C27_Witness ==
    \E g \in Guards :
        /\ status[g] = "exit_interrupted"
        /\ entryHandler[g] = default_int_handler
        /\ handlers["SIGINT"] = default_int_handler
        /\ task_cancelled[g]
        /\ deferred[g] = 1
        /\ delivered = 2

\* C28 A cached job has its assignment function: in every state, whatever the
\* interleaving of threads that probe at the same time, win32_job being a job
\* means win32_AssignProcessToJobObject is the kernel's function; and no step
\* taken while win32_job is a job makes the function anything else. So a bind
\* whose detection answered True calls the function, never None or False.
C28_JobImpliesAssignFunction ==
    /\ [](win32_job = "job" => win32_AssignProcessToJobObject = "function")
    /\ [][win32_job = "job"
            => /\ win32_job' = "job"
               /\ win32_AssignProcessToJobObject' = "function"]_vars
    /\ [](\A p \in Probers :
            (probe_ret[p] = "True" /\ platform = "win32")
                => win32_AssignProcessToJobObject = "function")

C28_Witness ==
    /\ platform = "win32"
    /\ win32_job = "job"
    /\ win32_AssignProcessToJobObject = "function"
    /\ jobs_created = 2
    /\ probe_ret["t1"] = "True"
    /\ probe_pc["t2"] = "store_assign"

\* the attempts of the call at hand that the store answered with a result
\* that is not None
KvHits ==
    {k \in 1..Len(kv_replies) :
        kv_replies[k].raised = NoError /\ kv_replies[k].value # "None"}

\* C29 internal_kv_get_with_retry and internal_kv_list_with_retry call the
\* store at most num_retries times; a call of the store that raises counts
\* as None; the first answer that is not None is the last call made, and the
\* helper returns exactly that answer; the helper raises ConnectionError
\* exactly if no call was answered with something other than None.
C29_FetchWithRetry ==
    (kv_fn \in {"get", "list"})
    => /\ Len(kv_replies) <= kv_num_retries
       /\ \A k \in KvHits : k = Len(kv_replies)
       /\ kv_pc = "done"
            => /\ KvHits # {}
                    => kv_outcome = Returned(kv_replies[Len(kv_replies)].value)
               /\ KvHits = {} <=> kv_outcome = Raised(ConnectionError)
               /\ KvHits = {} => Len(kv_replies) = kv_num_retries

\* C30 internal_kv_put_with_retry, for every num_retries >= 0, attempts the
\* put at most num_retries times; an attempt that does not raise is the last
\* one, and its result is what the helper returns; and when every attempt
\* raised an RpcError the helper raises an RpcError, that of the last attempt.
C30_PutWithRetry ==
    (kv_fn = "put")
    => /\ Len(kv_replies) <= kv_num_retries
       /\ \A k \in 1..Len(kv_replies) :
            kv_replies[k].raised = NoError
                => /\ k = Len(kv_replies)
                   /\ kv_pc = "done"
                   /\ kv_outcome = Returned(kv_replies[k].value)
       /\ (kv_pc = "done"
             /\ \A k \in 1..Len(kv_replies) : kv_replies[k].raised[1] = "RpcError")
            => /\ kv_outcome.kind = "raised"
               /\ kv_outcome.error[1] = "RpcError"
               /\ Len(kv_replies) = kv_num_retries
               /\ Len(kv_replies) > 0
                    => kv_outcome.error = kv_replies[Len(kv_replies)].raised
====
